---- MODULE Spec2Model ----
(***************************************************************************)
(* Signal-driven message / notification / edit-history propagation of the  *)
(* Django-signals_orm-0x04 project, in its two variants: the `chats` app   *)
(* and the `messaging` app.  The store is the set of ORM rows; every       *)
(* action is one ORM call together with the signal handlers and the        *)
(* on_delete cascades that run inside it.                                  *)
(***************************************************************************)
EXTENDS Integers, Sequences, FiniteSets, Bags, TLC

VARIABLES variant, users, convs, participants, updated_at, msgs, notifs,
          hist, nextConv, nextMsg, steps, last, ret, writes

vars == <<variant, users, convs, participants, updated_at, msgs, notifs,
          hist, nextConv, nextMsg, steps, last, ret, writes>>

(* ---------------------------- bounds ---------------------------------- *)
NumUsers == 3
MaxConvs == 2
MaxMsgs == 1
NumBodies == 2
MaxHist == 2
MaxSteps == 2
MaxWrites == 1
MaxEdits == 2
ThreadMsgs == 3

(* ------------------------- program constants -------------------------- *)
DefaultMaxDepth == 5

None == 0
Users == 1..NumUsers
ConvIds == 1..MaxConvs
MsgIds == 1..MaxMsgs
Bodies == 1..NumBodies
Variants == {"chats", "messaging"}

(* ------------------------------ rows ---------------------------------- *)
\* The body every message is created with.
FirstBody == CHOOSE b \in Bodies : \A x \in Bodies : b <= x

\* A Message row: sender, optional receiver, conversation, body, the edited
\* and read flags (both default False) and the optional parent message.
Message(s, r, c, b, p) ==
    [sender |-> s, receiver |-> r, conversation |-> c, content |-> b,
     edited |-> FALSE, read |-> FALSE, parent_message |-> p]

\* A Notification row; is_read defaults to False.
Notification(u, m, t) ==
    [user |-> u, message |-> m, notification_type |-> t, is_read |-> FALSE]

\* A MessageHistory row; rows are kept in edited_at order.
MessageHistory(m, b) == [message |-> m, old_content |-> b]

\* The rows of the store that the handlers read and write.
Store == [users |-> users, convs |-> convs, participants |-> participants,
          updated_at |-> updated_at, msgs |-> msgs, notifs |-> notifs,
          hist |-> hist]

\* The record of the last operation: its arguments, the fault injected into
\* it, whether it raised into its caller, and what the cleanup handler put
\* into deletion_stats and into the audit entry.
NoOp == [op |-> "init", user |-> None, msg |-> None,
         fault |-> "none", raised |-> FALSE, errors |-> {},
         empty_deleted |-> 0, audit_stored |-> FALSE, audit_errors |-> {},
         count |-> 0]

(* --------------------------- row helpers ------------------------------ *)
\* The rows of bag B that satisfy Keep (a queryset filter on notifications).
FilterBag(B, Keep(_)) == [n \in {x \in DOMAIN B : Keep(x)} |-> B[n]]

\* Number of rows in bag B that satisfy P (queryset.filter(...).count()).
CountBag(B, P(_)) == BagCardinality(FilterBag(B, P))

\* get_receivers without the direct-receiver branch.
get_receivers_group_only(msg, parts) ==
    parts[msg.conversation] \ {msg.sender}

\* Message.get_receivers: the direct receiver when there is one, otherwise
\* every participant of the conversation except the sender.
get_receivers(msg, parts) ==
    IF msg.receiver # None
    THEN {msg.receiver}
    ELSE parts[msg.conversation] \ {msg.sender}

\* Conversation.objects.filter(participants__isnull=True)
EmptyConversations(db) == {c \in db.convs : db.participants[c] = {}}

(* ----------------------- on_delete=CASCADE ---------------------------- *)
\* Messages reached from S through parent_message (replies cascade with
\* their parent).
RECURSIVE ReplyClosure(_, _)
ReplyClosure(S, M) ==
    LET T == S \cup {m \in DOMAIN M : M[m].parent_message \in S}
    IN  IF T = S THEN S ELSE ReplyClosure(T, M)

\* delete_messages when Notification.message and MessageHistory.message do
\* not cascade.
delete_messages_rows_only(db, S) ==
    LET gone == ReplyClosure(S, db.msgs)
    IN  [db EXCEPT !.msgs = [m \in DOMAIN db.msgs \ gone |-> db.msgs[m]]]

\* Deleting the messages S: their replies, their notifications and their
\* history rows go with them.
delete_messages(db, S) ==
    LET gone == ReplyClosure(S, db.msgs)
    IN  [db EXCEPT
           !.msgs = [m \in DOMAIN db.msgs \ gone |-> db.msgs[m]],
           !.notifs = FilterBag(db.notifs, LAMBDA n : n.message \notin gone),
           !.hist = SelectSeq(db.hist, LAMBDA h : h.message \notin gone)]

\* Deleting the conversations C: their participant rows and their messages.
delete_conversations(db, C) ==
    LET d == delete_messages(db,
                 {m \in DOMAIN db.msgs : db.msgs[m].conversation \in C})
    IN  [d EXCEPT !.convs = db.convs \ C,
                  !.participants = [c \in ConvIds |->
                        IF c \in C THEN {} ELSE db.participants[c]],
                  !.updated_at = [c \in ConvIds |->
                        IF c \in C THEN None ELSE db.updated_at[c]]]

\* delete_user_rows that also takes every message of the conversations the
\* user participates in.
delete_user_rows_with_conversation_messages(db, u) ==
    LET d == delete_messages(db,
                 {m \in DOMAIN db.msgs :
                     \/ db.msgs[m].sender = u
                     \/ db.msgs[m].receiver = u
                     \/ u \in db.participants[db.msgs[m].conversation]})
    IN  [d EXCEPT !.users = db.users \ {u},
                  !.notifs = FilterBag(d.notifs, LAMBDA n : n.user # u),
                  !.participants = [c \in ConvIds |-> db.participants[c] \ {u}]]

\* delete_user_rows when Message.receiver does not cascade.
delete_user_rows_sender_only(db, u) ==
    LET d == delete_messages(db,
                 {m \in DOMAIN db.msgs : db.msgs[m].sender = u})
    IN  [d EXCEPT !.users = db.users \ {u},
                  !.notifs = FilterBag(d.notifs, LAMBDA n : n.user # u),
                  !.participants = [c \in ConvIds |-> db.participants[c] \ {u}]]

\* user.delete(): the rows collected through the CASCADE foreign keys of
\* Message.sender, Message.receiver, Notification.user and the participants
\* table are deleted with the user row, before post_delete is sent.
delete_user_rows(db, u) ==
    LET d == delete_messages(db,
                 {m \in DOMAIN db.msgs :
                     db.msgs[m].sender = u \/ db.msgs[m].receiver = u})
    IN  [d EXCEPT !.users = db.users \ {u},
                  !.notifs = FilterBag(d.notifs, LAMBDA n : n.user # u),
                  !.participants = [c \in ConvIds |-> db.participants[c] \ {u}]]

(* ------------------------- signal handlers ---------------------------- *)
\* create_message_notification that does not leave the sender out.
create_message_notification_with_sender(db, m) ==
    LET msg == db.msgs[m]
        recipients == IF msg.receiver # None THEN {msg.receiver}
                      ELSE db.participants[msg.conversation]
    IN  [db EXCEPT !.notifs =
            db.notifs (+) SetToBag({Notification(u, m, "new_message") :
                                        u \in recipients})]

\* post_save(Message, created=True): one new_message notification per
\* recipient of get_receivers (chats: one bulk_create; messaging: one
\* Notification.objects.create per recipient).
create_message_notification(db, m) ==
    LET recipients == get_receivers(db.msgs[m], db.participants)
    IN  [db EXCEPT !.notifs =
            db.notifs (+) SetToBag({Notification(u, m, "new_message") :
                                        u \in recipients})]

\* update_conversation_timestamp without the save of the conversation.
update_conversation_timestamp_no_save(db, m, t) == db

\* post_save(Message, created=True): conversation.save(update_fields=
\* ['updated_at']) on an auto_now field writes the time of the save.
update_conversation_timestamp(db, m, t) ==
    [db EXCEPT !.updated_at[db.msgs[m].conversation] = t]

\* post_save that runs the creation handlers on every save.
post_save_ignoring_created(db, m, created, t) ==
    update_conversation_timestamp(create_message_notification(db, m), m, t)

\* The post_save(Message) receivers: both act only when created is true.
post_save(db, m, created, t) ==
    IF created
    THEN update_conversation_timestamp(create_message_notification(db, m), m, t)
    ELSE db

\* edit_notifications written by a plain bulk_create in both variants.
edit_notifications_plain_bulk_create(v, db, m, instance) ==
    LET recipients ==
            IF v = "chats"
            THEN db.participants[instance.conversation] \ {instance.sender}
            ELSE get_receivers(instance, db.participants)
    IN  db.notifs (+) SetToBag({Notification(u, m, "message_edit") :
                                   u \in recipients})

\* The message_edit notifications of an edit.  chats: every participant
\* except the sender, written by a plain bulk_create (the chats Notification
\* has no uniqueness constraint).  messaging: get_receivers, written by
\* bulk_create(ignore_conflicts=True) under unique_together
\* (user, message, notification_type).
edit_notifications(v, db, m, instance) ==
    LET recipients ==
            IF v = "chats"
            THEN db.participants[instance.conversation] \ {instance.sender}
            ELSE get_receivers(instance, db.participants)
        rows == {Notification(u, m, "message_edit") : u \in recipients}
    IN  IF v = "chats"
        THEN db.notifs (+) SetToBag(rows)
        ELSE db.notifs (+) SetToBag({n \in rows : n \notin DOMAIN db.notifs})

\* log_message_edit that keeps a single history row per message, replacing
\* the row of the previous edit.
log_message_edit_replaces_history(v, db, m, instance) ==
    IF m \in DOMAIN db.msgs /\ db.msgs[m].content # instance.content
    THEN [db |-> [db EXCEPT
                    !.hist = Append(SelectSeq(db.hist,
                                              LAMBDA h : h.message # m),
                                    MessageHistory(m, db.msgs[m].content)),
                    !.notifs = edit_notifications(v, db, m, instance)],
          instance |-> [instance EXCEPT !.edited = TRUE]]
    ELSE [db |-> db, instance |-> instance]

\* log_message_edit that takes an instance without a stored row for an edit
\* as well.
log_message_edit_on_insert(v, db, m, instance) ==
    IF m \notin DOMAIN db.msgs \/ db.msgs[m].content # instance.content
    THEN [db |-> [db EXCEPT
                    !.hist = Append(db.hist,
                                    MessageHistory(m, instance.content)),
                    !.notifs = edit_notifications(v, db, m, instance)],
          instance |-> [instance EXCEPT !.edited = TRUE]]
    ELSE [db |-> db, instance |-> instance]

\* log_message_edit without the comparison of the bodies.
log_message_edit_any_save(v, db, m, instance) ==
    IF m \in DOMAIN db.msgs
    THEN [db |-> [db EXCEPT
                    !.hist = Append(db.hist,
                                    MessageHistory(m, db.msgs[m].content)),
                    !.notifs = edit_notifications(v, db, m, instance)],
          instance |-> [instance EXCEPT !.edited = TRUE]]
    ELSE [db |-> db, instance |-> instance]

\* pre_save(Message): when the row exists and its stored body differs from
\* the body of the instance being saved, append a history row holding the
\* stored body, set edited on the instance and write the edit notifications.
\* Returns the store and the instance as the handler leaves them.
log_message_edit(v, db, m, instance) ==
    IF m \in DOMAIN db.msgs /\ db.msgs[m].content # instance.content
    THEN [db |-> [db EXCEPT
                    !.hist = Append(db.hist,
                                    MessageHistory(m, db.msgs[m].content)),
                    !.notifs = edit_notifications(v, db, m, instance)],
          instance |-> [instance EXCEPT !.edited = TRUE]]
    ELSE [db |-> db, instance |-> instance]

\* Model.save(update_fields=fields) writes only the named columns of the
\* instance; a plain save() writes all of them.
write_fields(stored, instance, fields) ==
    [f \in DOMAIN stored |-> IF f \in fields THEN instance[f] ELSE stored[f]]

AllFields == {"sender", "receiver", "conversation", "content", "edited",
              "read", "parent_message"}

\* Message.get_original_content (messaging): the current body while the
\* edited flag is false, otherwise the old content of the oldest history row.
get_original_content(db, m) ==
    LET rows == SelectSeq(db.hist, LAMBDA h : h.message = m)
    IN  IF ~db.msgs[m].edited THEN db.msgs[m].content
        ELSE IF Len(rows) > 0 THEN rows[1].old_content
        ELSE db.msgs[m].content

\* for_user without the exclusion of the user's own messages.
for_user_including_own(db, u) ==
    {m \in DOMAIN db.msgs :
        /\ u \in db.participants[db.msgs[m].conversation]
        /\ ~db.msgs[m].read}

\* UnreadMessagesManager.for_user / unread_for_user: unread messages of the
\* conversations the user participates in, not sent by the user.
for_user(db, u) ==
    {m \in DOMAIN db.msgs :
        /\ u \in db.participants[db.msgs[m].conversation]
        /\ ~db.msgs[m].read
        /\ db.msgs[m].sender # u}

(* --------------------- post_delete(User) handlers --------------------- *)
\* The statements of the handlers that can raise.
ChatsFaults == {"none", "empty_conversations"}
MessagingFaults == {"none", "messages", "histories", "empty_conversations",
                    "orphaned", "verify", "audit"}
Faults(v) == IF v = "chats" THEN ChatsFaults ELSE MessagingFaults

\* chats cleanup_user_data: delete every conversation without participants.
\* Nothing is caught: a failing statement raises into the caller.
cleanup_user_data_chats(db, u, fault) ==
    IF fault = "empty_conversations"
    THEN [db |-> db, raised |-> TRUE, errors |-> {}, empty_deleted |-> 0,
          audit_stored |-> FALSE, audit_errors |-> {}]
    ELSE LET empty == EmptyConversations(db)
         IN  [db |-> delete_conversations(db, empty), raised |-> FALSE,
              errors |-> {}, empty_deleted |-> Cardinality(empty),
              audit_stored |-> FALSE, audit_errors |-> {}]

\* messaging cleanup_orphaned_references: a second scan for conversations
\* without participants; its own failure is caught and recorded.
cleanup_orphaned_references(db, fault) ==
    IF fault = "orphaned"
    THEN [db |-> db, errors |-> {"orphaned"}]
    ELSE [db |-> delete_conversations(db, EmptyConversations(db)),
          errors |-> {}]

\* verify_cleanup_completion counting every conversation, not the empty ones.
verify_cleanup_completion_counts_all(db, fault) ==
    IF fault = "verify" THEN {"verify"}
    ELSE IF Cardinality(db.convs) > 0 THEN {"found_empty"}
    ELSE {}

\* messaging verify_cleanup_completion: records an error when a conversation
\* without participants is still there, or when the check itself fails.
verify_cleanup_completion(db, fault) ==
    IF fault = "verify" THEN {"verify"}
    ELSE IF Cardinality(EmptyConversations(db)) > 0 THEN {"found_empty"}
    ELSE {}

\* messaging cleanup_user_data: delete the messages sent by the user and
\* their history rows, delete the conversations without participants, run
\* the orphan scan and the verification, then store the audit entry.  Any
\* exception of the body is caught, recorded and stored with the audit
\* entry; store_deletion_audit_log catches its own failure.
cleanup_user_data_messaging(db, u, fault) ==
    LET d1 == delete_messages(db,
                  {m \in DOMAIN db.msgs : db.msgs[m].sender = u})
        d2 == [d1 EXCEPT !.hist = SelectSeq(d1.hist,
                  LAMBDA h : ~(h.message \in DOMAIN d1.msgs
                               /\ d1.msgs[h.message].sender = u))]
        empty == EmptyConversations(d2)
        d3 == delete_conversations(d2, empty)
        orphan == cleanup_orphaned_references(d3, fault)
        errs == orphan.errors \cup verify_cleanup_completion(orphan.db, fault)
        caught(d) == [db |-> d, raised |-> FALSE, errors |-> {"cleanup"},
                      empty_deleted |-> 0, audit_stored |-> TRUE,
                      audit_errors |-> {"cleanup"}]
    IN  CASE fault = "messages" -> caught(db)
          [] fault = "histories" -> caught(d1)
          [] fault = "empty_conversations" -> caught(d2)
          [] OTHER ->
               [db |-> orphan.db, raised |-> FALSE, errors |-> errs,
                empty_deleted |-> Cardinality(empty),
                audit_stored |-> (fault # "audit"),
                audit_errors |-> IF fault # "audit" THEN errs ELSE {}]

\* cleanup_user_data without the scan for empty conversations.
cleanup_user_data_keeps_empty(v, db, u, fault) ==
    [db |-> db, raised |-> FALSE, errors |-> {}, empty_deleted |-> 0,
     audit_stored |-> (v = "messaging"), audit_errors |-> {}]

\* post_delete(User): the handler of the app the store belongs to.
cleanup_user_data(v, db, u, fault) ==
    IF v = "chats" THEN cleanup_user_data_chats(db, u, fault)
    ELSE cleanup_user_data_messaging(db, u, fault)

(* ------------------------------ state --------------------------------- *)
\* The state the fixtures leave: the users exist, and one conversation
\* exists whose participants have been added, either all the users or the
\* first user alone; no message, notification or history row exists yet.
Init ==
    /\ variant \in Variants
    /\ users = Users
    /\ convs = {1}
    /\ participants \in {[c \in ConvIds |-> IF c = 1 THEN P ELSE {}] :
                            P \in {Users, {1}}}
    /\ updated_at = [c \in ConvIds |-> None]
    /\ msgs = << >>
    /\ notifs = EmptyBag
    /\ hist = << >>
    /\ nextConv = 2
    /\ nextMsg = 1
    /\ steps = 0
    /\ last = NoOp
    /\ ret = << >>
    /\ writes = << >>

\* Write the rows of db back to the store.
Commit(db) ==
    /\ users' = db.users
    /\ convs' = db.convs
    /\ participants' = db.participants
    /\ updated_at' = db.updated_at
    /\ msgs' = db.msgs
    /\ notifs' = db.notifs
    /\ hist' = db.hist

\* Every operation is one step of the run; runs are MaxSteps long.  No
\* write that is followed handler by handler takes part in it.
Step == steps < MaxSteps /\ steps' = steps + 1 /\ UNCHANGED writes

\* timezone.now() as read by the running operation: the clock is later for
\* every later operation (the fixtures were written at time None).
now == steps + 1

(* ----------------------------- actions -------------------------------- *)
\* Conversation.objects.create(): the row is inserted without participants.
CreateConversation ==
    /\ Step
    /\ nextConv <= MaxConvs
    /\ convs' = convs \cup {nextConv}
    /\ nextConv' = nextConv + 1
    /\ updated_at' = [updated_at EXCEPT ![nextConv] = now]
    /\ last' = [NoOp EXCEPT !.op = "create_conversation"]
    /\ UNCHANGED <<variant, users, participants, msgs, notifs, hist,
                   nextMsg, ret>>

\* conversation.participants.add(user)
AddParticipant(c, u) ==
    /\ Step
    /\ c \in convs
    /\ u \in users \ participants[c]
    /\ participants' = [participants EXCEPT ![c] = @ \cup {u}]
    /\ last' = [NoOp EXCEPT !.op = "add_participant"]
    /\ UNCHANGED <<variant, users, convs, updated_at, msgs, notifs, hist,
                   nextConv, nextMsg, ret>>

\* conversation.participants.remove(user)
RemoveParticipant(c, u) ==
    /\ Step
    /\ c \in convs
    /\ u \in participants[c]
    /\ participants' = [participants EXCEPT ![c] = @ \ {u}]
    /\ last' = [NoOp EXCEPT !.op = "remove_participant"]
    /\ UNCHANGED <<variant, users, convs, updated_at, msgs, notifs, hist,
                   nextConv, nextMsg, ret>>

\* Message.objects.create(sender, receiver, conversation, body, parent):
\* pre_save (log_message_edit finds no stored row), the insert, then the
\* post_save handlers with created=True.  Bodies are only ever compared for
\* equality, so every message is created with the first body.
CreateMessage(s, r, c, p) ==
    /\ Step
    /\ nextMsg <= MaxMsgs
    /\ s \in users
    /\ r \in users \cup {None}
    /\ c \in convs
    /\ p \in DOMAIN msgs \cup {None}
    /\ LET m == nextMsg
           pre == log_message_edit(variant, Store, m, Message(s, r, c, FirstBody, p))
           inserted == [pre.db EXCEPT !.msgs =
                            [x \in DOMAIN msgs \cup {m} |->
                                IF x = m THEN pre.instance ELSE msgs[x]]]
       IN  /\ Commit(post_save(inserted, m, TRUE, now))
           /\ last' = [NoOp EXCEPT !.op = "create_message", !.msg = m]
    /\ nextMsg' = nextMsg + 1
    /\ UNCHANGED <<variant, nextConv, ret>>

\* message.content = b; message.read = r (read is only ever set to True);
\* message.save() on a freshly loaded instance.  restricted: save(update_fields=<the changed fields>),
\* which returns at once, before any signal, when the list is empty.
SaveMessage(m, b, r, restricted) ==
    /\ Step
    /\ m \in DOMAIN msgs
    /\ r \in {msgs[m].read, TRUE}
    /\ (b # msgs[m].content) => Len(hist) < MaxHist
    /\ LET instance == [msgs[m] EXCEPT !.content = b, !.read = r]
           changed == {f \in {"content", "read"} : instance[f] # msgs[m][f]}
           fields == IF restricted THEN changed ELSE AllFields
           pre == log_message_edit(variant, Store, m, instance)
       IN  IF fields = {}
           THEN UNCHANGED <<users, convs, participants, updated_at, msgs,
                            notifs, hist>>
           ELSE Commit(post_save(
                    [pre.db EXCEPT !.msgs[m] =
                        write_fields(pre.db.msgs[m], pre.instance, fields)],
                    m, FALSE, now))
    /\ last' = [NoOp EXCEPT !.op = "save_message", !.msg = m]
    /\ UNCHANGED <<variant, nextConv, nextMsg, ret>>

\* Message.unread.mark_as_read(user): a queryset update of read on the
\* unread messages of the user; no signal is sent.
MarkAsRead(u) ==
    /\ Step
    /\ u \in users
    /\ LET unread == for_user(Store, u)
       IN  /\ msgs' = [m \in DOMAIN msgs |->
                          IF m \in unread THEN [msgs[m] EXCEPT !.read = TRUE]
                          ELSE msgs[m]]
           /\ last' = [NoOp EXCEPT !.op = "mark_as_read", !.user = u,
                                   !.count = Cardinality(unread)]
    /\ UNCHANGED <<variant, users, convs, participants, updated_at, notifs,
                   hist, nextConv, nextMsg, ret>>

\* user.delete(): the cascade, then post_delete(User) inside the same
\* atomic block: an exception that leaves the handler rolls the deletion
\* back and reaches the caller.  last.count is the number of conversations
\* the user was in.
DeleteUser(u, fault) ==
    /\ Step
    /\ u \in users
    /\ fault \in Faults(variant)
    /\ LET out == cleanup_user_data(variant, delete_user_rows(Store, u),
                                    u, fault)
       IN  /\ IF out.raised
              THEN UNCHANGED <<users, convs, participants, updated_at, msgs,
                               notifs, hist>>
              ELSE Commit(out.db)
           /\ last' = [NoOp EXCEPT !.op = "delete_user", !.user = u,
                          !.count = Cardinality({c \in convs :
                                                    u \in participants[c]}),
                          !.fault = fault, !.raised = out.raised,
                          !.errors = out.errors,
                          !.empty_deleted = out.empty_deleted,
                          !.audit_stored = out.audit_stored,
                          !.audit_errors = out.audit_errors]
    /\ UNCHANGED <<variant, nextConv, nextMsg, ret>>

\* The cleanup handler invoked once more for an already deleted user.
RerunCleanup(u, fault) ==
    /\ Step
    /\ u \in Users \ users
    /\ fault \in Faults(variant)
    /\ LET out == cleanup_user_data(variant, Store, u, fault)
       IN  /\ Commit(out.db)
           /\ last' = [NoOp EXCEPT !.op = "rerun_cleanup", !.user = u,
                          !.fault = fault, !.raised = out.raised,
                          !.errors = out.errors,
                          !.empty_deleted = out.empty_deleted,
                          !.audit_stored = out.audit_stored,
                          !.audit_errors = out.audit_errors]
    /\ UNCHANGED <<variant, nextConv, nextMsg, ret>>

Next ==
    \/ CreateConversation
    \/ \E c \in ConvIds, u \in Users : AddParticipant(c, u)
    \/ \E c \in ConvIds, u \in Users : RemoveParticipant(c, u)
    \/ \E s \in Users, r \in Users \cup {None}, c \in ConvIds,
          p \in MsgIds \cup {None} : CreateMessage(s, r, c, p)
    \/ \E m \in MsgIds, b \in Bodies, r \in BOOLEAN, restricted \in BOOLEAN :
          SaveMessage(m, b, r, restricted)
    \/ \E u \in Users : MarkAsRead(u)
    \/ \E u \in Users : DeleteUser(u, "none")
    \/ \E u \in Users : RerunCleanup(u, "none")

Spec == Init /\ [][Next]_vars

\* The same operations when a statement of the cleanup handler may raise.
NextFault ==
    \/ CreateConversation
    \/ \E c \in ConvIds, u \in Users : AddParticipant(c, u)
    \/ \E s \in Users, r \in Users \cup {None}, c \in ConvIds,
          p \in MsgIds \cup {None} : CreateMessage(s, r, c, p)
    \/ \E u \in Users, fault \in MessagingFaults : DeleteUser(u, fault)
    \/ \E u \in Users, fault \in MessagingFaults : RerunCleanup(u, fault)

SpecFault == Init /\ [][NextFault]_vars

\* message.delete(): the row goes with what cascades from it.
DeleteMessage(m) ==
    /\ Step
    /\ m \in DOMAIN msgs
    /\ Commit(delete_messages(Store, {m}))
    /\ last' = [NoOp EXCEPT !.op = "delete_message", !.msg = m]
    /\ UNCHANGED <<variant, nextConv, nextMsg, ret>>

\* conversation.delete(): the row goes with its participant rows and its
\* messages.
DeleteConversation(c) ==
    /\ Step
    /\ c \in convs
    /\ Commit(delete_conversations(Store, {c}))
    /\ last' = [NoOp EXCEPT !.op = "delete_conversation"]
    /\ UNCHANGED <<variant, nextConv, nextMsg, ret>>

(* --------------------------- edit runs -------------------------------- *)
\* The store after the first user has sent message 1 in the conversation of
\* all users, to the group or directly to r: the row and what the post_save
\* receivers wrote for it.
MessageFixture(v, r) ==
    LET empty == [users |-> Users, convs |-> {1},
                  participants |-> [c \in ConvIds |->
                                       IF c = 1 THEN Users ELSE {}],
                  updated_at |-> [c \in ConvIds |-> None],
                  msgs |-> << >>, notifs |-> EmptyBag, hist |-> << >>]
        pre == log_message_edit(v, empty, 1, Message(1, r, 1, FirstBody, None))
        inserted == [pre.db EXCEPT !.msgs = (1 :> pre.instance)]
    IN  post_save(inserted, 1, TRUE, None)

\* Runs that start either from the fixtures of Init or with one message
\* already sent.
EditInit ==
    \/ Init
    \/ /\ variant \in Variants
       /\ \E r \in Users \cup {None} :
             LET db == MessageFixture(variant, r)
             IN  /\ users = db.users
                 /\ convs = db.convs
                 /\ participants = db.participants
                 /\ updated_at = db.updated_at
                 /\ msgs = db.msgs
                 /\ notifs = db.notifs
                 /\ hist = db.hist
       /\ nextConv = 2
       /\ nextMsg = 2
       /\ steps = 0
       /\ last = NoOp
       /\ ret = << >>
       /\ writes = << >>

\* Message creations, saves, mark-as-read and user deletions.
EditNext ==
    \/ \E s \in Users, r \in Users \cup {None}, c \in ConvIds,
          p \in MsgIds \cup {None} : CreateMessage(s, r, c, p)
    \/ \E m \in MsgIds, b \in Bodies, r \in BOOLEAN, restricted \in BOOLEAN :
          SaveMessage(m, b, r, restricted)
    \/ \E u \in Users : MarkAsRead(u)
    \/ \E u \in Users : DeleteUser(u, "none")

SpecEdit == EditInit /\ [][EditNext]_vars

\* Every operation on the rows: creating and editing messages, changing
\* the participants of conversations, deleting users, messages and
\* conversations, from the fixtures or with one message already sent.
IntegrityNext ==
    \/ CreateConversation
    \/ \E c \in ConvIds, u \in Users : AddParticipant(c, u)
    \/ \E c \in ConvIds, u \in Users : RemoveParticipant(c, u)
    \/ \E s \in Users, r \in Users \cup {None}, c \in ConvIds,
          p \in MsgIds \cup {None} : CreateMessage(s, r, c, p)
    \/ \E m \in MsgIds, b \in Bodies, r \in BOOLEAN, restricted \in BOOLEAN :
          SaveMessage(m, b, r, restricted)
    \/ \E u \in Users : DeleteUser(u, "none")
    \/ \E m \in MsgIds : DeleteMessage(m)
    \/ \E c \in ConvIds : DeleteConversation(c)

SpecIntegrity == EditInit /\ [][IntegrityNext]_vars

(* ------------------- a write, handler by handler ---------------------- *)
\* Model.save() sends pre_save, writes the row, sends post_save to the
\* receivers in the order they were connected, and returns; the handlers
\* run in the caller.  No transaction encloses the save (the project opens
\* none), so every statement of a handler is committed when it ends.

\* The dispatcher returning to the caller right after the row is written.
next_pc_returns_early(pc) ==
    CASE pc = "save" -> "log_message_edit"
      [] pc = "log_message_edit" -> "save_table"
      [] pc = "save_table" -> "returned"
      [] pc = "create_message_notification" -> "update_conversation_timestamp"
      [] pc = "update_conversation_timestamp" -> "returned"

\* What runs after pc: the pre_save receiver, the write of the row, the
\* post_save receivers, the return to the caller.
next_pc(pc) ==
    CASE pc = "save" -> "log_message_edit"
      [] pc = "log_message_edit" -> "save_table"
      [] pc = "save_table" -> "create_message_notification"
      [] pc = "create_message_notification" -> "update_conversation_timestamp"
      [] pc = "update_conversation_timestamp" -> "returned"

\* A write in flight: the handler to run next, the instance the caller
\* holds, what has run, the statement that raised, and the store as it was
\* when the caller called save().
Write(m, instance, created, db) ==
    [pc |-> next_pc("save"), m |-> m, instance |-> instance,
     created |-> created, done |-> << >>, fault |-> "none", before |-> db]

\* The recipients of the message_edit notifications.
edit_recipients(v, db, instance) ==
    IF v = "chats"
    THEN db.participants[instance.conversation] \ {instance.sender}
    ELSE get_receivers(instance, db.participants)

\* log_message_edit with its failures: either it runs to its end, or
\* MessageHistory.objects.create raises with nothing written, or the
\* bulk_create of the notifications raises after the history row has been
\* written and edited has been set on the instance.
log_message_edit_outcomes(v, db, m, instance) ==
    LET ok == log_message_edit(v, db, m, instance)
        detected == m \in DOMAIN db.msgs
                    /\ db.msgs[m].content # instance.content
    IN  {[db |-> ok.db, instance |-> ok.instance, fault |-> "none"]}
        \cup (IF detected
              THEN {[db |-> db, instance |-> instance, fault |-> "history"]}
              ELSE {})
        \cup (IF detected /\ edit_recipients(v, db, instance) # {}
              THEN {[db |-> [db EXCEPT !.hist = Append(db.hist,
                                   MessageHistory(m, db.msgs[m].content))],
                     instance |-> [instance EXCEPT !.edited = TRUE],
                     fault |-> "edit_notifications"]}
              ELSE {})

\* The write of the row (insert or update of every column), or its failure.
save_table_outcomes(db, m, instance) ==
    {[db |-> [db EXCEPT !.msgs = (m :> instance) @@ db.msgs],
      instance |-> instance, fault |-> "none"],
     [db |-> db, instance |-> instance, fault |-> "save_table"]}

\* create_message_notification with its failures.  chats writes the rows
\* with one bulk_create: a failure leaves none.  messaging creates them one
\* by one: a failure leaves the rows created before it.
create_message_notification_outcomes(v, db, m, instance, created) ==
    LET recipients == get_receivers(db.msgs[m], db.participants)
        written(S) == [db EXCEPT !.notifs = db.notifs (+)
                          SetToBag({Notification(u, m, "new_message") :
                                       u \in S})]
    IN  {[db |-> IF created THEN create_message_notification(db, m) ELSE db,
          instance |-> instance, fault |-> "none"]}
        \cup (IF created /\ recipients # {}
              THEN {[db |-> written(S), instance |-> instance,
                     fault |-> "notifications"] :
                        S \in IF v = "chats" THEN {{}}
                              ELSE (SUBSET recipients) \ {recipients}}
              ELSE {})

\* update_conversation_timestamp, or the failure of its save.
update_conversation_timestamp_outcomes(db, m, instance, created, t) ==
    {[db |-> IF created THEN update_conversation_timestamp(db, m, t) ELSE db,
      instance |-> instance, fault |-> "none"]}
    \cup (IF created
          THEN {[db |-> db, instance |-> instance, fault |-> "timestamp"]}
          ELSE {})

\* The write w after the handler it was at ended with outcome out: an
\* exception leaves the save at once and reaches the caller.
after_handler(w, out) ==
    IF out.fault = "none"
    THEN [w EXCEPT !.pc = next_pc(w.pc), !.instance = out.instance,
                   !.done = Append(w.done, w.pc)]
    ELSE [w EXCEPT !.pc = "raised", !.instance = out.instance,
                   !.fault = out.fault]

\* One step of a write in flight.
WriteStep ==
    /\ steps' = steps + 1
    /\ last' = [NoOp EXCEPT !.op = "write_step"]
    /\ UNCHANGED <<variant, nextConv, ret>>

\* Message.objects.create(sender, receiver, conversation, body) is called.
BeginCreate(s, r, c) ==
    /\ Len(writes) < MaxWrites
    /\ nextMsg <= MaxMsgs
    /\ s \in users
    /\ r \in users \cup {None}
    /\ c \in convs
    /\ writes' = Append(writes, Write(nextMsg, Message(s, r, c, FirstBody, None),
                                      TRUE, Store))
    /\ nextMsg' = nextMsg + 1
    /\ WriteStep
    /\ UNCHANGED <<users, convs, participants, updated_at, msgs, notifs, hist>>

\* message = Message.objects.get(m); message.content = b; message.save()
\* is called.
BeginSave(m, b) ==
    /\ Len(writes) < MaxWrites
    /\ m \in DOMAIN msgs
    /\ writes' = Append(writes, Write(m, [msgs[m] EXCEPT !.content = b],
                                      FALSE, Store))
    /\ WriteStep
    /\ UNCHANGED <<users, convs, participants, updated_at, msgs, notifs, hist,
                   nextMsg>>

\* The pre_save receiver of write i runs.
PreSave(i) ==
    /\ i \in DOMAIN writes
    /\ writes[i].pc = "log_message_edit"
    /\ \E out \in log_message_edit_outcomes(variant, Store, writes[i].m,
                                            writes[i].instance) :
          /\ Commit(out.db)
          /\ writes' = [writes EXCEPT ![i] = after_handler(@, out)]
    /\ WriteStep
    /\ UNCHANGED nextMsg

\* The row of write i is written.
SaveTable(i) ==
    /\ i \in DOMAIN writes
    /\ writes[i].pc = "save_table"
    /\ \E out \in save_table_outcomes(Store, writes[i].m, writes[i].instance) :
          /\ Commit(out.db)
          /\ writes' = [writes EXCEPT ![i] = after_handler(@, out)]
    /\ WriteStep
    /\ UNCHANGED nextMsg

\* The post_save receiver create_message_notification of write i runs.
PostSaveNotification(i) ==
    /\ i \in DOMAIN writes
    /\ writes[i].pc = "create_message_notification"
    /\ \E out \in create_message_notification_outcomes(variant, Store,
                      writes[i].m, writes[i].instance, writes[i].created) :
          /\ Commit(out.db)
          /\ writes' = [writes EXCEPT ![i] = after_handler(@, out)]
    /\ WriteStep
    /\ UNCHANGED nextMsg

\* The post_save receiver update_conversation_timestamp of write i runs.
PostSaveTimestamp(i) ==
    /\ i \in DOMAIN writes
    /\ writes[i].pc = "update_conversation_timestamp"
    /\ \E out \in update_conversation_timestamp_outcomes(Store, writes[i].m,
                      writes[i].instance, writes[i].created, now) :
          /\ Commit(out.db)
          /\ writes' = [writes EXCEPT ![i] = after_handler(@, out)]
    /\ WriteStep
    /\ UNCHANGED nextMsg

WriteNext ==
    \/ \E s \in Users, r \in Users \cup {None}, c \in ConvIds :
          BeginCreate(s, r, c)
    \/ \E m \in MsgIds, b \in Bodies : BeginSave(m, b)
    \/ \E i \in 1..MaxWrites : PreSave(i)
    \/ \E i \in 1..MaxWrites : SaveTable(i)
    \/ \E i \in 1..MaxWrites : PostSaveNotification(i)
    \/ \E i \in 1..MaxWrites : PostSaveTimestamp(i)

SpecWrite == EditInit /\ [][WriteNext]_vars

\* Saves of the same store by several callers at once: each caller loads the
\* message, sets the body and calls save() while the saves of the others are
\* in flight; the handlers of the saves interleave in any order.
BeginEdit(m, b) ==
    /\ Len(writes) < MaxEdits
    /\ m \in DOMAIN msgs
    /\ writes' = Append(writes, Write(m, [msgs[m] EXCEPT !.content = b],
                                      FALSE, Store))
    /\ WriteStep
    /\ UNCHANGED <<users, convs, participants, updated_at, msgs, notifs, hist,
                   nextMsg>>

RaceNext ==
    \/ \E m \in MsgIds, b \in Bodies : BeginEdit(m, b)
    \/ \E i \in 1..MaxEdits : PreSave(i)
    \/ \E i \in 1..MaxEdits : SaveTable(i)
    \/ \E i \in 1..MaxEdits : PostSaveNotification(i)
    \/ \E i \in 1..MaxEdits : PostSaveTimestamp(i)

SpecRace == EditInit /\ [][RaceNext]_vars

(* ----------------------- threaded replies ----------------------------- *)
\* The elements of the set of message ids S in ascending order: the default
\* ordering of Message is sent_at, and ids are handed out in creation order.
RECURSIVE OrderBySentAt(_)
OrderBySentAt(S) ==
    IF S = {} THEN << >>
    ELSE LET first == CHOOSE m \in S : \A x \in S : m <= x
         IN  <<first>> \o OrderBySentAt(S \ {first})

\* get_replies_recursive that stops one level later.
RECURSIVE get_replies_recursive_one_level_more(_, _, _, _)
get_replies_recursive_one_level_more(M, message, depth, max_depth) ==
    IF depth > max_depth + 1 THEN << >>
    ELSE LET replies == OrderBySentAt({m \in DOMAIN M :
                                          M[m].parent_message = message})
         IN  [i \in 1..Len(replies) |->
                 [message_id |-> replies[i],
                  depth |-> depth + 1,
                  replies |-> get_replies_recursive_one_level_more(
                                  M, replies[i], depth + 1, max_depth)]]

\* MessageViewSet.threaded_replies.get_replies_recursive
RECURSIVE get_replies_recursive(_, _, _, _)
get_replies_recursive(M, message, depth, max_depth) ==
    IF depth > max_depth THEN << >>
    ELSE LET replies == OrderBySentAt({m \in DOMAIN M :
                                          M[m].parent_message = message})
         IN  [i \in 1..Len(replies) |->
                 [message_id |-> replies[i],
                  depth |-> depth + 1,
                  replies |-> get_replies_recursive(M, replies[i], depth + 1,
                                                    max_depth)]]

\* A store of ThreadMsgs messages sent by user 1 in conversation 1, with
\* every assignment of parent_message (the field is a plain nullable
\* foreign key: nothing keeps a message from being its own ancestor).
ThreadInit ==
    /\ variant = "chats"
    /\ users = Users
    /\ convs = {1}
    /\ participants = [c \in ConvIds |-> IF c = 1 THEN Users ELSE {}]
    /\ updated_at = [c \in ConvIds |-> None]
    /\ msgs \in {[m \in 1..ThreadMsgs |-> Message(1, None, 1, FirstBody, f[m])] :
                    f \in [1..ThreadMsgs -> {None} \cup (1..ThreadMsgs)]}
    /\ notifs = SetToBag({Notification(u, m, "new_message") :
                             u \in Users \ {1}, m \in 1..ThreadMsgs})
    /\ hist = << >>
    /\ nextConv = 2
    /\ nextMsg = ThreadMsgs + 1
    /\ steps = 0
    /\ last = NoOp
    /\ ret = << >>
    /\ writes = << >>

\* GET threaded_replies for the message root; last.count records max_depth.
ThreadedReplies(root, max_depth) ==
    /\ Step
    /\ root \in DOMAIN msgs
    /\ ret' = get_replies_recursive(msgs, root, 0, max_depth)
    /\ last' = [NoOp EXCEPT !.op = "threaded_replies", !.msg = root,
                            !.count = max_depth]
    /\ UNCHANGED <<variant, users, convs, participants, updated_at, msgs,
                   notifs, hist, nextConv, nextMsg>>

ThreadNext ==
    \E root \in 1..ThreadMsgs, max_depth \in 0..DefaultMaxDepth :
        ThreadedReplies(root, max_depth)

SpecThread == ThreadInit /\ [][ThreadNext]_vars

(* ====================================================================== *)
(*                              properties                                *)
(* ====================================================================== *)
\* Number of notifications for user u about message m of type t.
NotifCount(u, m, t) ==
    CountBag(notifs, LAMBDA n : n.user = u /\ n.message = m
                                /\ n.notification_type = t)

\* The notifications about message m.
NotifsOf(m) == {n \in DOMAIN notifs : n.message = m}

\* The last operation created a message that is still stored.
Created == last.op = "create_message" /\ last.msg \in DOMAIN msgs

\* C1 (as stated): after a message is created with a direct receiver there
\* is exactly one new_message notification for it, addressed to the receiver
\* and unread, and no notification for it is addressed to the sender.
C1_DirectNotifiesReceiverNotSender ==
    (Created /\ msgs[last.msg].receiver # None) =>
        LET m == last.msg
            new == {n \in NotifsOf(m) : n.notification_type = "new_message"}
        IN  /\ CountBag(notifs, LAMBDA n : n \in new) = 1
            /\ \A n \in new : n.user = msgs[m].receiver /\ ~n.is_read
            /\ \A n \in NotifsOf(m) : n.user # msgs[m].sender

\* C1 (amended): after a message is created with a direct receiver there is
\* exactly one notification for it, of type new_message, addressed to the
\* receiver and unread; none is addressed to the sender unless the sender is
\* the receiver.
C1_DirectNotifiesReceiverOnly ==
    (Created /\ msgs[last.msg].receiver # None) =>
        LET m == last.msg
        IN  /\ CountBag(notifs, LAMBDA n : n.message = m) = 1
            /\ \A n \in NotifsOf(m) :
                  /\ n.notification_type = "new_message"
                  /\ n.user = msgs[m].receiver
                  /\ ~n.is_read
            /\ (msgs[m].receiver # msgs[m].sender =>
                    \A n \in NotifsOf(m) : n.user # msgs[m].sender)

\* A direct message to another user, in a conversation of three, has been
\* created.
C1_Witness ==
    /\ Created
    /\ msgs[last.msg].receiver \notin {None, msgs[last.msg].sender}
    /\ Cardinality(participants[msgs[last.msg].conversation]) = 3
    /\ NotifCount(msgs[last.msg].receiver, last.msg, "new_message") = 1

\* C2 (as stated): a message without direct receiver created in a
\* conversation of N participants gets exactly N-1 new_message
\* notifications, one per participant other than the sender, none for the
\* sender.
C2_GroupNotifiesNMinusOne ==
    (Created /\ msgs[last.msg].receiver = None) =>
        LET m == last.msg
            P == participants[msgs[m].conversation]
        IN  /\ CountBag(notifs, LAMBDA n : n.message = m
                            /\ n.notification_type = "new_message")
                 = Cardinality(P) - 1
            /\ \A u \in P \ {msgs[m].sender} :
                   NotifCount(u, m, "new_message") = 1
            /\ NotifCount(msgs[m].sender, m, "new_message") = 0

\* C2 (amended): such a message gets exactly one new_message notification
\* per participant other than the sender and none for anybody else; that is
\* N-1 notifications when the sender is one of the N participants, and N
\* when it is not.
C2_GroupNotifiesOthers ==
    (Created /\ msgs[last.msg].receiver = None) =>
        LET m == last.msg
            P == participants[msgs[m].conversation]
            total == CountBag(notifs, LAMBDA n : n.message = m
                                /\ n.notification_type = "new_message")
        IN  /\ \A u \in Users :
                   NotifCount(u, m, "new_message") =
                       IF u \in P \ {msgs[m].sender} THEN 1 ELSE 0
            /\ total = IF msgs[m].sender \in P THEN Cardinality(P) - 1
                       ELSE Cardinality(P)

\* A participant of a conversation of three has sent a group message: the
\* two others have their notification.
C2_Witness ==
    /\ Created
    /\ msgs[last.msg].receiver = None
    /\ msgs[last.msg].sender \in participants[msgs[last.msg].conversation]
    /\ Cardinality(participants[msgs[last.msg].conversation]) = 3
    /\ BagCardinality(notifs) = 2

\* The history rows of message m, oldest first.
HistoryOf(m) == SelectSeq(hist, LAMBDA h : h.message = m)

\* This step is a save of the stored message m.
SavedNow(m) ==
    /\ last'.op = "save_message"
    /\ last'.msg = m
    /\ m \in DOMAIN msgs
    /\ m \in DOMAIN msgs'

\* C3 (as stated): saving an existing message with a body different from
\* its stored body appends exactly one MessageHistory row for that message,
\* holding the previously stored body, and the persisted message has
\* edited = true afterwards.
C3_EditLogsHistoryAndMarksEdited ==
    [][\A m \in MsgIds :
          (SavedNow(m) /\ msgs'[m].content # msgs[m].content) =>
              /\ hist' = Append(hist, MessageHistory(m, msgs[m].content))
              /\ msgs'[m].edited]_vars

\* C4: a save that leaves the body equal to the stored body, and a
\* mark-as-read through the unread manager, create no MessageHistory row
\* and leave the edited flag of every message as it was.
C4_NonBodyMutationIsNoEdit ==
    [][((\E m \in MsgIds :
            SavedNow(m) /\ msgs'[m].content = msgs[m].content)
        \/ last'.op = "mark_as_read") =>
            /\ hist' = hist
            /\ DOMAIN msgs' = DOMAIN msgs
            /\ \A m \in DOMAIN msgs : msgs'[m].edited = msgs[m].edited]_vars

\* A save has set the read flag of a message that was never edited: it left
\* the body as it was, and there is no history row.
C4_Witness ==
    /\ last.op = "save_message"
    /\ last.msg \in DOMAIN msgs
    /\ msgs[last.msg].read
    /\ msgs[last.msg].content = FirstBody
    /\ ~msgs[last.msg].edited
    /\ hist = << >>

\* C5 (as stated): after any sequence of body edits get_original_content
\* returns the body the message was created with: the old content of the
\* oldest history row when there is history, the current body when there is
\* none.
C5_OriginalContentRecoverable ==
    variant = "messaging" =>
        \A m \in DOMAIN msgs :
            /\ get_original_content(Store, m) = FirstBody
            /\ get_original_content(Store, m) =
                   IF Len(HistoryOf(m)) > 0 THEN HistoryOf(m)[1].old_content
                   ELSE msgs[m].content

\* This step is a user deletion that returned to its caller.
DeletedNow(u) ==
    last'.op = "delete_user" /\ last'.user = u /\ ~last'.raised

C7_NoEmptyConversationAfterDeletion ==
    [][\A u \in Users : DeletedNow(u) =>
          /\ \A c \in convs' : participants'[c] # {}
          /\ \A c \in convs : participants[c] = {u} => c \notin convs']_vars

\* A user deletion has removed the fixture conversation, whose only
\* participant was the deleted user.
C7_Witness ==
    /\ last.op = "delete_user"
    /\ ~last.raised
    /\ last.empty_deleted = 1
    /\ last.count = 1
    /\ 1 \notin convs
    /\ steps = 1
    /\ Cardinality(users) = NumUsers - 1

\* C8: running the cleanup again for the user whose deletion (or whose
\* previous cleanup run) has just completed changes nothing in the store,
\* deletes zero empty conversations and records zero errors.
C8_SecondCleanupIsNoOp ==
    [][(/\ last.op \in {"delete_user", "rerun_cleanup"}
        /\ ~last.raised
        /\ last.fault = "none"
        /\ last'.op = "rerun_cleanup"
        /\ last'.user = last.user) =>
            /\ Store' = Store
            /\ last'.empty_deleted = 0
            /\ last'.errors = {}
            /\ ~last'.raised]_vars

\* The cleanup has run a second time right after a deletion whose first run
\* removed the fixture conversation.
C8_Witness ==
    /\ last.op = "rerun_cleanup"
    /\ last.empty_deleted = 0
    /\ steps = 2
    /\ convs = {}
    /\ nextConv = 2

\* C9 (as stated): in both signal modules a failure of a step of the
\* cleanup handler is caught inside the handler and recorded in the error
\* list of the audit entry (a failure of the audit step itself can only be
\* swallowed), is never raised into the caller of the user deletion, and
\* the user deletion stays committed.
C9_CleanupFailureNeverPropagates ==
    (last.op = "delete_user" /\ last.fault # "none") =>
        /\ ~last.raised
        /\ last.user \notin users
        /\ (last.fault # "audit" =>
                last.audit_stored /\ last.audit_errors # {})

\* The chain root -> r1 -> r1a: message 1 has no parent, message 2 replies
\* to 1, message 3 replies to 2, and no other message replies into it.
ReplyChain ==
    /\ {1, 2, 3} \subseteq DOMAIN msgs
    /\ msgs[1].parent_message = None
    /\ msgs[2].parent_message = 1
    /\ msgs[3].parent_message = 2
    /\ \A m \in DOMAIN msgs \ {1, 2, 3} : msgs[m].parent_message \notin {1, 2, 3}

\* C10 (as stated): on the chain root -> r1 -> r1a, threaded reply
\* resolution for the root returns with max_depth = 5 r1 as the only reply
\* with r1a nested under it, and with max_depth = 0 an empty list.
C10_ThreadedRepliesOnChain ==
    (ReplyChain /\ last.op = "threaded_replies" /\ last.msg = 1) =>
        /\ last.count = DefaultMaxDepth =>
              ret = <<[message_id |-> 2, depth |-> 1, replies |->
                        <<[message_id |-> 3, depth |-> 2,
                           replies |-> << >>]>>]>>
        /\ last.count = 0 => ret = << >>

\* Number of rows of the notification table B for user u about message m.
NotifsFor(B, u, m) == CountBag(B, LAMBDA n : n.user = u /\ n.message = m)

\* Number of rows of B for user u about message m of type t.
NotifsOfType(B, u, m, t) ==
    CountBag(B, LAMBDA n : n.user = u /\ n.message = m
                           /\ n.notification_type = t)

C12_OneNotificationPerTriple ==
    variant = "messaging" =>
        \A u \in Users, m \in MsgIds, t \in {"new_message", "message_edit"} :
            NotifsOfType(notifs, u, m, t) <= 1

\* The messaging variant after two body edits of a message: its recipient
\* has one message_edit notification.
C12_Witness ==
    /\ variant = "messaging"
    /\ \E m \in DOMAIN msgs :
          /\ Len(HistoryOf(m)) = 2
          /\ \E u \in Users : NotifsOfType(notifs, u, m, "message_edit") = 1

\* C13 (as stated): in both variants, when a save changes the body of a
\* message the message_edit notifications go to the recipients computed as
\* for creation: the direct receiver when the message has one, otherwise
\* every participant except the sender.  Every such recipient has a
\* message_edit notification afterwards and nobody else gets a new one.
C13_EditNotifiesCreationRecipients ==
    [][\A m \in MsgIds :
          (SavedNow(m) /\ msgs'[m].content # msgs[m].content) =>
              LET recipients == get_receivers(msgs[m], participants)
              IN  \A u \in Users :
                      /\ u \in recipients =>
                             NotifsOfType(notifs', u, m, "message_edit") >= 1
                      /\ u \notin recipients =>
                             NotifsOfType(notifs', u, m, "message_edit")
                                 = NotifsOfType(notifs, u, m, "message_edit")]_vars

\* The messages that are unread for user u: read is false, u participates
\* in the conversation, and u is not the sender.
UnreadOf(u) ==
    {m \in DOMAIN msgs : /\ ~msgs[m].read
                         /\ u \in participants[msgs[m].conversation]
                         /\ msgs[m].sender # u}

\* C14: for every user u, for_user(u) returns exactly the unread messages
\* of u; mark_as_read(u) returns their number, sets read on exactly them
\* and changes nothing else of any message, and afterwards for_user(u) is
\* empty.
C14_UnreadManager ==
    [][/\ \A u \in Users : for_user(Store, u) = UnreadOf(u)
       /\ \A u \in Users : for_user(Store', u) = UnreadOf(u)'
       /\ \A u \in Users :
             (last'.op = "mark_as_read" /\ last'.user = u) =>
                 /\ last'.count = Cardinality(UnreadOf(u))
                 /\ DOMAIN msgs' = DOMAIN msgs
                 /\ \A m \in DOMAIN msgs :
                        msgs'[m] = IF m \in UnreadOf(u)
                                   THEN [msgs[m] EXCEPT !.read = TRUE]
                                   ELSE msgs[m]
                 /\ for_user(Store', u) = {}]_vars

\* mark_as_read has marked one message, sent by somebody else, for a user
\* who now has nothing unread.
C14_Witness ==
    /\ last.op = "mark_as_read"
    /\ last.count = 1
    /\ \E m \in DOMAIN msgs : msgs[m].read /\ msgs[m].sender # last.user
    /\ for_user(Store, last.user) = {}

\* C15: whenever a message is added to a conversation, the conversation's
\* updated_at after the add is strictly later than before it; a save of an
\* existing message changes the updated_at of no conversation.
C15_TimestampAdvancesOnAdd ==
    [][/\ \A m \in MsgIds :
             (last'.op = "create_message" /\ last'.msg = m) =>
                 /\ m \in DOMAIN msgs'
                 /\ updated_at'[msgs'[m].conversation]
                        > updated_at[msgs'[m].conversation]
       /\ \A m \in MsgIds : SavedNow(m) => updated_at' = updated_at]_vars

\* A message has been added to the second conversation, which was created
\* during the run: the timestamp of its creation has been replaced.
C15_Witness ==
    /\ Created
    /\ msgs[last.msg].conversation = 2
    /\ updated_at[2] = steps
    /\ steps = 2

\* The receivers that run after the row is written.
PostSaveReceivers ==
    {"create_message_notification", "update_conversation_timestamp"}

\* The handlers of write w that have run to their end.
Finished(w) == {w.done[j] : j \in DOMAIN w.done}

\* C16: for a single message write, the pre_save handler has finished
\* before any post_save handler starts, and every handler has finished
\* before the write returns to its caller.
C16_HandlerOrdering ==
    \A i \in DOMAIN writes :
        LET w == writes[i]
        IN  /\ \A j \in DOMAIN w.done :
                   w.done[j] \in PostSaveReceivers =>
                       \E k \in 1..(j - 1) : w.done[k] = "log_message_edit"
            /\ w.pc \in PostSaveReceivers => "log_message_edit" \in Finished(w)
            /\ w.pc = "returned" =>
                   {"log_message_edit"} \cup PostSaveReceivers \subseteq Finished(w)

\* A creation has returned to its caller after its four steps, and its
\* notification is written.
C16_Witness ==
    \E i \in DOMAIN writes :
        /\ writes[i].pc = "returned"
        /\ writes[i].created
        /\ Len(writes[i].done) = 4
        /\ \E u \in Users :
              NotifsOfType(notifs, u, writes[i].m, "new_message") = 1

\* C17 (as stated): all writes of one message operation commit together or
\* not at all: when the write or one of its handlers has failed, no
\* MessageHistory row, no notification and no change of the message made by
\* that operation remains in the store.
C17_WriteAllOrNothing ==
    \A i \in DOMAIN writes :
        LET w == writes[i]
            m == w.m
        IN  w.pc = "raised" =>
                /\ SelectSeq(hist, LAMBDA h : h.message = m)
                       = SelectSeq(w.before.hist, LAMBDA h : h.message = m)
                /\ FilterBag(notifs, LAMBDA n : n.message = m)
                       = FilterBag(w.before.notifs, LAMBDA n : n.message = m)
                /\ (m \in DOMAIN msgs) = (m \in DOMAIN w.before.msgs)
                /\ m \in DOMAIN msgs => msgs[m] = w.before.msgs[m]

\* C18 (as stated): the new_message notifications of one message creation
\* are written all-or-nothing: once the fan-out has ended, by running to its
\* end or by failing part-way, either every computed recipient has its
\* notification for the message or no recipient has one.
C18_FanOutAllOrNothing ==
    \A i \in DOMAIN writes :
        LET w == writes[i]
        IN  (/\ w.created
             /\ \/ "create_message_notification" \in Finished(w)
                \/ w.pc = "raised" /\ w.fault = "notifications") =>
                LET recipients == get_receivers(msgs[w.m], participants)
                IN  \/ \A u \in recipients :
                          NotifsOfType(notifs, u, w.m, "new_message") = 1
                    \/ \A u \in recipients :
                          NotifsOfType(notifs, u, w.m, "new_message") = 0

\* C19 (as stated): in the edit path a failure of the notification write
\* never blocks the message: a save whose message_edit notifications could
\* not be written is not aborted, and once it has returned the new body is
\* the stored one.
C19_EditNotificationFailureDoesNotBlock ==
    \A i \in DOMAIN writes :
        LET w == writes[i]
        IN  w.fault = "edit_notifications" =>
                /\ w.pc # "raised"
                /\ w.pc = "returned" => msgs[w.m].content = w.instance.content

\* C20: in the messaging variant, a save that edits the body of a message
\* which already has a history row succeeds: the new body is stored, exactly
\* one history row holding the replaced body is appended, a history row is
\* appended only with a stored change of body, and every recipient of the
\* message has exactly one message_edit notification for it afterwards.
C20_RepeatedEditNoDuplicate ==
    [][\A m \in MsgIds :
          (/\ variant = "messaging"
           /\ SavedNow(m)
           /\ Len(HistoryOf(m)) >= 1
           /\ \/ msgs'[m].content # msgs[m].content
              \/ HistoryOf(m)' # HistoryOf(m)) =>
              /\ msgs'[m].content # msgs[m].content
              /\ HistoryOf(m)' = Append(HistoryOf(m),
                                        MessageHistory(m, msgs[m].content))
              /\ \A u \in get_receivers(msgs'[m], participants') :
                     NotifsOfType(notifs', u, m, "message_edit") = 1]_vars

\* The messaging variant right after the second body edit of a message with
\* two recipients: two history rows, and one message_edit notification for
\* each recipient.
C20_Witness ==
    /\ variant = "messaging"
    /\ last.op = "save_message"
    /\ last.msg \in DOMAIN msgs
    /\ Len(HistoryOf(last.msg)) = 2
    /\ HistoryOf(last.msg)[2].old_content # msgs[last.msg].content
    /\ Cardinality(get_receivers(msgs[last.msg], participants)) = 2
    /\ \A u \in get_receivers(msgs[last.msg], participants) :
           NotifsOfType(notifs, u, last.msg, "message_edit") = 1

\* The sequence p is a prefix of the sequence q.
IsPrefix(p, q) == Len(p) <= Len(q) /\ SubSeq(q, 1, Len(p)) = p

\* C21: MessageHistory is append-only.  In every step the history rows of
\* the messages that still exist afterwards are all still there, unchanged
\* and in their order, before any row the step appended; and a message
\* creation, a save (of the body or not) and a mark-as-read destroy no
\* message, so they keep every history row.
C21_HistoryAppendOnly ==
    [][/\ IsPrefix(SelectSeq(hist, LAMBDA h : h.message \in DOMAIN msgs'),
                   hist')
       /\ last'.op \in {"create_message", "save_message", "mark_as_read"} =>
              /\ DOMAIN msgs \subseteq DOMAIN msgs'
              /\ IsPrefix(hist, hist')]_vars

\* An edited message has been edited once more: the history row of the first
\* edit is still the first row, with the body the message was created with.
C21_Witness ==
    /\ last.op = "save_message"
    /\ last.msg \in DOMAIN msgs
    /\ Len(HistoryOf(last.msg)) = 2
    /\ HistoryOf(last.msg)[1] = MessageHistory(last.msg, FirstBody)
    /\ msgs[last.msg].content = FirstBody

\* C22: the edit-history recorder never acts on an insert.  A step that
\* creates a message leaves the MessageHistory rows as they were and creates
\* no message_edit notification, and the stored message has edited = false.
C22_NoHistoryOnInsert ==
    [][last'.op = "create_message" =>
          LET m == last'.msg
          IN  /\ m \notin DOMAIN msgs
              /\ m \in DOMAIN msgs'
              /\ hist' = hist
              /\ SelectSeq(hist', LAMBDA h : h.message = m) = << >>
              /\ \A u \in Users, x \in MsgIds \cup {m} :
                     NotifsOfType(notifs', u, x, "message_edit")
                         = NotifsOfType(notifs, u, x, "message_edit")
              /\ \A u \in Users : NotifsOfType(notifs', u, m, "message_edit") = 0
              /\ ~msgs'[m].edited]_vars

\* A group message has been created in the conversation of three: its two
\* recipients have their new_message notification, and nothing of an edit
\* exists.
C22_Witness ==
    /\ Created
    /\ Cardinality(get_receivers(msgs[last.msg], participants)) = 2
    /\ \A u \in get_receivers(msgs[last.msg], participants) :
           NotifsOfType(notifs, u, last.msg, "new_message") = 1
    /\ hist = << >>
    /\ ~msgs[last.msg].edited

\* C23 (as stated): a message is destroyed by cascade only when its sender
\* or its conversation is destroyed: deleting user U removes no message that
\* was sent by another user and whose conversation still exists afterwards.
C23_CascadeOnlyBySenderOrConversation ==
    [][\A u \in Users : DeletedNow(u) =>
          \A m \in DOMAIN msgs :
              (msgs[m].sender # u /\ msgs[m].conversation \in convs') =>
                  (m \in DOMAIN msgs' /\ msgs'[m] = msgs[m])]_vars

\* C23 (amended): a message is destroyed by cascade only when its sender,
\* its direct receiver, its conversation or its parent message is destroyed:
\* deleting user U removes no message that was sent by another user, is not
\* addressed directly to U, is not a reply to a removed message and whose
\* conversation still exists afterwards; such a message is left as it was.
C23_CascadeOnlyByOwner ==
    [][\A u \in Users : DeletedNow(u) =>
          \A m \in DOMAIN msgs :
              (/\ msgs[m].sender # u
               /\ msgs[m].receiver # u
               /\ msgs[m].conversation \in convs'
               /\ msgs[m].parent_message \in DOMAIN msgs' \cup {None}) =>
                  (m \in DOMAIN msgs' /\ msgs'[m] = msgs[m])]_vars

\* A participant of the conversation of three has been deleted: the group
\* message another participant sent there is still stored, with its
\* notification for the third participant.
C23_Witness ==
    /\ last.op = "delete_user"
    /\ ~last.raised
    /\ last.user \notin users
    /\ last.count >= 1
    /\ \E m \in DOMAIN msgs :
          /\ msgs[m].sender # last.user
          /\ msgs[m].receiver = None
          /\ msgs[m].conversation \in convs
          /\ Cardinality(participants[msgs[m].conversation]) = 2
          /\ \E v \in users : NotifsOfType(notifs, v, m, "new_message") = 1

\* The list r is the answer for the replies of message p at depth d under
\* the bound max: it holds each message whose parent is p once, in sent_at
\* order, labelled depth d, and under each of them the answer for its own
\* replies, which is empty once d exceeds the bound.
RECURSIVE TruncatedReplies(_, _, _, _)
TruncatedReplies(r, p, d, max) ==
    /\ [i \in 1..Len(r) |-> r[i].message_id]
           = OrderBySentAt({m \in DOMAIN msgs : msgs[m].parent_message = p})
    /\ \A i \in 1..Len(r) :
          /\ r[i].depth = d
          /\ IF d > max
             THEN r[i].replies = << >>
             ELSE TruncatedReplies(r[i].replies, r[i].message_id, d + 1, max)

\* The number of levels of the answer r.
RECURSIVE Levels(_)
Levels(r) ==
    IF r = << >> THEN 0
    ELSE 1 + (LET n == {Levels(r[i].replies) : i \in 1..Len(r)}
              IN  CHOOSE x \in n : \A y \in n : y <= x)

\* A message of the store is its own ancestor.
RECURSIVE IsOwnAncestor(_, _, _)
IsOwnAncestor(m, x, fuel) ==
    /\ fuel > 0
    /\ msgs[x].parent_message # None
    /\ \/ msgs[x].parent_message = m
       \/ IsOwnAncestor(m, msgs[x].parent_message, fuel - 1)

\* C24: threaded reply resolution returns a result for every assignment of
\* parent references, chains longer than the bound and messages that are
\* their own ancestors included: the result is a finite tree of the replies
\* in which the subtree of every reply whose depth exceeds the bound is
\* truncated to the empty list.
C24_ThreadedRepliesTerminate ==
    last.op = "threaded_replies" =>
        /\ TruncatedReplies(ret, last.msg, 1, last.count)
        /\ Levels(ret) <= last.count + 1

\* The replies of a message that is its own ancestor have been resolved with
\* the default bound: the result is there, cut after the level whose depth
\* exceeds the bound.
C24_Witness ==
    /\ last.op = "threaded_replies"
    /\ last.count = DefaultMaxDepth
    /\ IsOwnAncestor(last.msg, last.msg, ThreadMsgs)
    /\ Levels(ret) = DefaultMaxDepth + 1

\* C25 (as stated): in every state reached by message creations and body
\* edits, no notification of any type is addressed to the sender of the
\* message it references.
C25_NoNotificationToSender ==
    \A n \in DOMAIN notifs :
        n.message \in DOMAIN msgs => n.user # msgs[n.message].sender

\* C25 (amended): in every state reached by message creations and body
\* edits, a notification is addressed to the sender of the message it
\* references only when that message names its sender as its direct
\* receiver; a message sent to the group, or directly to somebody else,
\* never notifies its sender.
C25_NoNotificationToSenderUnlessReceiver ==
    \A n \in DOMAIN notifs :
        n.message \in DOMAIN msgs =>
            (n.user = msgs[n.message].sender =>
                 msgs[n.message].receiver = msgs[n.message].sender)

\* A participant's group message in the conversation of three has been
\* edited: each of the two others has a new_message and a message_edit
\* notification, the sender has none.
C25_Witness ==
    /\ last.op = "save_message"
    /\ last.msg \in DOMAIN msgs
    /\ LET m == last.msg
           others == participants[msgs[m].conversation] \ {msgs[m].sender}
       IN  /\ msgs[m].receiver = None
           /\ msgs[m].sender \in participants[msgs[m].conversation]
           /\ Cardinality(others) = 2
           /\ \A u \in others :
                  /\ NotifsOfType(notifs, u, m, "new_message") = 1
                  /\ NotifsOfType(notifs, u, m, "message_edit") = 1
           /\ NotifsFor(notifs, msgs[m].sender, m) = 0

\* C26 (as stated): after any sequence of message creations, body edits
\* (saves restricted to a subset of the fields included), non-body saves and
\* mark-as-read operations, the persisted edited flag of a message is true
\* if and only if the message has at least one MessageHistory row.
C26_EditedIffHistory ==
    \A m \in DOMAIN msgs : msgs[m].edited <=> Len(HistoryOf(m)) >= 1

\* C27 (as stated): a conversation under construction, whose row is
\* inserted and whose participants are attached in a later step, is never
\* deleted by the cleanup of an unrelated user's deletion that runs between
\* the two steps: a user deletion removes only conversations that lost
\* their last participant, the deleted user, with it.
C27_ConversationUnderConstructionKept ==
    [][\A u \in Users : DeletedNow(u) =>
          \A c \in convs : c \notin convs' => participants[c] = {u}]_vars

\* The bodies message m has had in the table: the body each write found when
\* its caller loaded the message, the body each finished table write stored,
\* and the body stored now.
PersistedBodies(m) ==
    {msgs[m].content}
    \cup {writes[i].before.msgs[m].content :
             i \in {k \in DOMAIN writes : writes[k].m = m
                                          /\ m \in DOMAIN writes[k].before.msgs}}
    \cup {writes[i].instance.content :
             i \in {k \in DOMAIN writes :
                       /\ writes[k].m = m
                       /\ \E j \in DOMAIN writes[k].done :
                             writes[k].done[j] = "save_table"}}

\* C28 (as stated): when body edits of the same message interleave and no
\* statement fails, the history records the true chain of bodies: every
\* body the message has had persisted, other than its current one, is the
\* old content of exactly one history row.
C28_InterleavedEditsKeepChain ==
    (\A i \in DOMAIN writes : writes[i].fault = "none") =>
        \A m \in DOMAIN msgs :
            \A b \in PersistedBodies(m) \ {msgs[m].content} :
                Cardinality({k \in 1..Len(HistoryOf(m)) :
                                HistoryOf(m)[k].old_content = b}) = 1

\* C29 (as stated): mark_as_read(u) does not change what any other user
\* sees as unread: for every user v other than u, for_user(v) returns the
\* same set of messages before and after the call.
C29_MarkAsReadNonInterference ==
    [][\A u \in Users :
          (last'.op = "mark_as_read" /\ last'.user = u) =>
              \A v \in Users \ {u} :
                  for_user(Store', v) = for_user(Store, v)]_vars

\* C30: referential integrity.  In every state reached by creating and
\* editing messages, changing conversation participants and deleting users,
\* messages or conversations, every notification references an existing
\* user and an existing message, every MessageHistory row references an
\* existing message, and every message references an existing sender and an
\* existing conversation.
C30_ReferentialIntegrity ==
    /\ \A n \in DOMAIN notifs : n.user \in users /\ n.message \in DOMAIN msgs
    /\ \A i \in 1..Len(hist) : hist[i].message \in DOMAIN msgs
    /\ \A m \in DOMAIN msgs : /\ msgs[m].sender \in users
                              /\ msgs[m].conversation \in convs

\* A recipient of an edited group message has been deleted: the message, its
\* history row and the notifications of the remaining recipient are still
\* stored, and nothing of the deleted user is.
C30_Witness ==
    /\ last.op = "delete_user"
    /\ last.user \notin users
    /\ \E m \in DOMAIN msgs :
          /\ Len(HistoryOf(m)) = 1
          /\ \E u \in users : /\ NotifsOfType(notifs, u, m, "new_message") = 1
                              /\ NotifsOfType(notifs, u, m, "message_edit") = 1
          /\ NotifsFor(notifs, last.user, m) = 0
          /\ last.user \notin participants[msgs[m].conversation]

====
